---- MODULE Spec2Model ----
(***************************************************************************)
(* Model of the Bankless onchain MCP server: the tool dispatcher of        *)
(* src/src/index.ts (ListTools and CallTool handlers, formatBanklessError) *)
(* and the operation handlers of operations/bankless.ts and                *)
(* operations/tokens.ts (token check, one axios call, classification of    *)
(* the failure in the catch block).                                        *)
(*                                                                         *)
(* JavaScript runs a handler to its first await without interleaving, so   *)
(* one action models an invocation up to the point the HTTP request is     *)
(* sent, and a second one models everything from the response to the       *)
(* outcome the caller receives.                                            *)
(*                                                                         *)
(* Strings the code builds by interpolation are sequences of their parts.  *)
(***************************************************************************)
EXTENDS Integers, Sequences, FiniteSets, TLC

VARIABLES
  env,    \* process.env.BANKLESS_API_TOKEN
  now,    \* the wall clock (seconds), read by new Date()
  task,   \* the invocation in progress: its position, request, call, outcome
  listed, \* the catalogs the ListTools handler has returned so far
  jobs    \* tool calls in flight at the same time, each with its own locals

vars == <<env, now, task, listed, jobs>>

(***************************************************************************)
(* JSON values of request arguments.                                       *)
(***************************************************************************)
Scalar(k, s) == [k |-> k, s |-> s]
Undefined == Scalar("undefined", "")
JNull == Scalar("null", "")
Str(s) == Scalar("string", s)
Num(s) == Scalar("number", s)
Bool(s) == Scalar("boolean", s)

\* an array element: a scalar, or an object with the keys type and value
Elem(k, s, type, value) == [k |-> k, s |-> s, type |-> type, value |-> value]
EStr(s) == Elem("string", s, Undefined, Undefined)
ENull == Elem("null", "", Undefined, Undefined)
ENum(s) == Elem("number", s, Undefined, Undefined)
EObj(type, value) == Elem("object", "", type, value)

\* an argument value: a scalar (e is empty) or an array of elements
Val(k, s, e) == [k |-> k, s |-> s, e |-> e]
VUndefined == Val("undefined", "", <<>>)
VNull == Val("null", "", <<>>)
VStr(s) == Val("string", s, <<>>)
VNum(s) == Val("number", s, <<>>)
VBool(s) == Val("boolean", s, <<>>)
VArr(e) == Val("array", "", e)

AllFields ==
  {"network", "contract", "method", "inputs", "outputs", "addresses", "topic",
   "optionalTopics", "name", "arguments", "user", "methodId", "startBlock",
   "includeData", "address"}

\* the arguments object: every key it does not hold is undefined
NoFields == [f \in AllFields |-> VUndefined]

(***************************************************************************)
(* The zod schemas.  A field is described by its type, the type of the     *)
(* items of an array, and the modifiers .optional(), .nullable() and       *)
(* .default(true).                                                         *)
(***************************************************************************)
Field(name, type, item, optional, nullable, hasDefault) ==
  [name |-> name, type |-> type, item |-> item, optional |-> optional,
   nullable |-> nullable, hasDefault |-> hasDefault]
ZString(name) == Field(name, "string", "none", FALSE, FALSE, FALSE)
ZArray(name, item) == Field(name, "array", item, FALSE, FALSE, FALSE)

ReadContractSchema ==
  << ZString("network"), ZString("contract"), ZString("method"),
     ZArray("inputs", "InputSchema"), ZArray("outputs", "OutputSchema") >>

GetProxySchema == << ZString("network"), ZString("contract") >>

GetEventLogsSchema ==
  << ZString("network"), ZArray("addresses", "string"), ZString("topic"),
     Field("optionalTopics", "array", "nullableString", TRUE, FALSE, FALSE) >>

BuildEventTopicSchema ==
  << ZString("network"), ZString("name"), ZArray("arguments", "OutputSchema") >>

GetAbiSchema == << ZString("network"), ZString("contract") >>

GetSourceSchema == << ZString("network"), ZString("contract") >>

TransactionHistorySchema ==
  << ZString("network"), ZString("user"),
     Field("contract", "string", "none", TRUE, TRUE, FALSE),
     Field("methodId", "string", "none", TRUE, TRUE, FALSE),
     Field("startBlock", "string", "none", TRUE, TRUE, FALSE),
     Field("includeData", "boolean", "none", FALSE, FALSE, TRUE) >>

NativeBalanceSchema == << ZString("network"), ZString("address") >>

TokenBalancesOnNetworkSchema == << ZString("network"), ZString("address") >>

(***************************************************************************)
(* schema.parse(arguments): the issues in schema order (none: the parse    *)
(* succeeds) and the parsed data, unknown keys stripped.                   *)
(***************************************************************************)
Issue(path, expected, received) ==
  [code |-> "invalid_type", path |-> path, expected |-> expected,
   received |-> received]

ElemIssues(item, el, path) ==
  CASE item = "string" ->
         IF el.k = "string" THEN <<>> ELSE << Issue(path, "string", el.k) >>
    [] item = "nullableString" ->
         IF el.k \in {"string", "null"} THEN <<>>
         ELSE << Issue(path, "string", el.k) >>
    [] OTHER ->  \* InputSchema, OutputSchema: an object with a string type
         IF el.k # "object" THEN << Issue(path, "object", el.k) >>
         ELSE IF el.type.k # "string"
              THEN << Issue(path \o <<"type">>, "string", el.type.k) >>
              ELSE <<>>

RECURSIVE ArrayIssues(_, _, _, _)
ArrayIssues(item, e, path, i) ==
  IF i > Len(e) THEN <<>>
  ELSE ElemIssues(item, e[i], path \o << ToString(i - 1) >>)
         \o ArrayIssues(item, e, path, i + 1)

\* zod with every string taken as .min(1)
FieldIssuesNonEmpty(f, v) ==
  CASE v.k = "undefined" ->
         IF f.optional \/ f.hasDefault THEN <<>>
         ELSE << Issue(<<f.name>>, f.type, "undefined") >>
    [] v.k = "null" ->
         IF f.nullable THEN <<>> ELSE << Issue(<<f.name>>, f.type, "null") >>
    [] v.k # f.type -> << Issue(<<f.name>>, f.type, v.k) >>
    [] v.k = "string" /\ v.s = "" -> << Issue(<<f.name>>, "nonempty", "string") >>
    [] OTHER ->
         IF f.type = "array" THEN ArrayIssues(f.item, v.e, <<f.name>>, 1)
         ELSE <<>>

\* zod with every key taken as .optional()
FieldIssuesAllOptional(f, v) ==
  CASE v.k = "undefined" -> <<>>
    [] v.k = "null" ->
         IF f.nullable THEN <<>> ELSE << Issue(<<f.name>>, f.type, "null") >>
    [] v.k # f.type -> << Issue(<<f.name>>, f.type, v.k) >>
    [] OTHER ->
         IF f.type = "array" THEN ArrayIssues(f.item, v.e, <<f.name>>, 1)
         ELSE <<>>

FieldIssues(f, v) ==
  CASE v.k = "undefined" ->
         IF f.optional \/ f.hasDefault THEN <<>>
         ELSE << Issue(<<f.name>>, f.type, "undefined") >>
    [] v.k = "null" ->
         IF f.nullable THEN <<>> ELSE << Issue(<<f.name>>, f.type, "null") >>
    [] v.k # f.type -> << Issue(<<f.name>>, f.type, v.k) >>
    [] OTHER ->
         IF f.type = "array" THEN ArrayIssues(f.item, v.e, <<f.name>>, 1)
         ELSE <<>>

RECURSIVE SchemaIssues(_, _, _)
SchemaIssues(schema, args, i) ==
  IF i > Len(schema) THEN <<>>
  ELSE FieldIssues(schema[i], args[schema[i].name])
         \o SchemaIssues(schema, args, i + 1)

\* the parsed element: OutputSchema keeps the key type only
ElemData(item, el) ==
  IF item = "OutputSchema" /\ el.k = "object" THEN EObj(el.type, Undefined)
  ELSE el

FieldData(f, v) ==
  CASE v.k = "undefined" /\ f.hasDefault -> VBool("true")
    [] v.k = "array" -> VArr([i \in 1..Len(v.e) |-> ElemData(f.item, v.e[i])])
    [] OTHER -> v

SchemaData(schema, args) ==
  [n \in AllFields |->
     IF \E i \in 1..Len(schema) : schema[i].name = n
     THEN LET i == CHOOSE j \in 1..Len(schema) : schema[j].name = n
          IN FieldData(schema[i], args[n])
     ELSE VUndefined]

Parse(schema, args) ==
  LET issues == SchemaIssues(schema, args, 1)
  IN [ok |-> issues = <<>>, issues |-> issues,
      data |-> IF issues = <<>> THEN SchemaData(schema, args) ELSE NoFields]

(***************************************************************************)
(* Errors.  cls is the class of the thrown object; message is its message; *)
(* response and resetAt are the fields of BanklessValidationError and      *)
(* BanklessRateLimitError; issues is ZodError.errors.                      *)
(***************************************************************************)
Body(id, message) == [id |-> id, message |-> message]
NoBody == Body("undefined", "")
\* the data of a response without content is the empty string
EmptyBody == Body("empty", "")
\* if (error.response)
Truthy(body) == body.id \notin {"undefined", "empty"}

NoTime == 0 - 1

MkError(cls, message, response, resetAt, issues) ==
  [cls |-> cls, message |-> message, response |-> response,
   resetAt |-> resetAt, issues |-> issues]
PlainError(message) == MkError("Error", message, NoBody, NoTime, <<>>)
ZodError(issues) == MkError("ZodError", <<"zod">>, NoBody, NoTime, issues)
BanklessAuthenticationError(message) ==
  MkError("BanklessAuthenticationError", message, NoBody, NoTime, <<>>)
BanklessResourceNotFoundError(message) ==
  MkError("BanklessResourceNotFoundError", message, NoBody, NoTime, <<>>)
BanklessValidationError(message, response) ==
  MkError("BanklessValidationError", message, response, NoTime, <<>>)
BanklessRateLimitError(message, resetAt) ==
  MkError("BanklessRateLimitError", message, NoBody, resetAt, <<>>)
NoError == MkError("none", <<>>, NoBody, NoTime, <<>>)

\* the classes of common/banklessErrors: BanklessError and its subclasses
BanklessClasses ==
  {"BanklessError", "BanklessValidationError", "BanklessAuthenticationError",
   "BanklessResourceNotFoundError", "BanklessRateLimitError"}

\* the Domain Error predicate
isBanklessError(error) == error.cls \in BanklessClasses

(***************************************************************************)
(* The clock.  new Date() reads the clock; setSeconds works on the local   *)
(* time of the process: it takes the local time fields of the date, puts   *)
(* the new seconds in, and converts the local time back to an instant,     *)
(* the earliest one where a local time occurs twice.  The time zone of the *)
(* model has one transition, at FallBackAt, where the clocks go back by    *)
(* DstShift; after it the zone behaves as one without transitions.         *)
(***************************************************************************)
TickStep == 30
MaxTicks == 5
FallBackAt == 3 * TickStep + 10
DstShift == 60 * 60
ResetSeconds == 60

Offset(t) == IF t < FallBackAt THEN DstShift ELSE 0
LocalTime(t) == t + Offset(t)
UTC(local) ==
  IF local - DstShift < FallBackAt THEN local - DstShift ELSE local

\* resetAt.setSeconds(resetAt.getSeconds() + seconds)
setSeconds(date, seconds) == UTC(LocalTime(date) + seconds)

(***************************************************************************)
(* The operation handlers.  Each reads the token, builds the endpoint and  *)
(* the payload, awaits one axios call and classifies its failure.          *)
(***************************************************************************)
\* "contracts.readContractState" is the readContractState of the module that
\* precedes operations/bankless.ts in the source: same body, another base URL
\* and another auth header
Handlers ==
  {"readContractState", "getProxy", "getEvents", "buildEventTopic", "getAbi",
   "getSource", "getTransactionHistory", "getNativeBalance",
   "getTokenBalancesOnNetwork", "contracts.readContractState"}

TokenHandlers == {"getNativeBalance", "getTokenBalancesOnNetwork"}

\* BASE_URL of operations/bankless.ts and of operations/tokens.ts
BASE_URL(h) ==
  CASE h \in TokenHandlers -> "https://api.bankless.com/mcp"
    [] h = "contracts.readContractState" ->
         "https://api.bankless.com/internal/chains"
    [] OTHER -> "https://api.bankless.com/"

HttpMethod(h) ==
  IF h \in {"readContractState", "getEvents", "buildEventTopic",
            "getTransactionHistory", "contracts.readContractState"}
  THEN "POST" ELSE "GET"

Endpoint(h, a) ==
  CASE h = "readContractState" ->
         << BASE_URL(h), "/internal/chains/", a["network"].s, "/contract/read" >>
    [] h = "getProxy" ->
         << BASE_URL(h), "/internal/chains/", a["network"].s, "/contract/",
            a["contract"].s, "/find-proxy" >>
    [] h = "getEvents" ->
         << BASE_URL(h), "/internal/chains/", a["network"].s, "/events/logs" >>
    [] h = "buildEventTopic" ->
         << BASE_URL(h), "/internal/chains/", a["network"].s,
            "/contract/build-event-topic" >>
    [] h = "getAbi" ->
         << BASE_URL(h), "/internal/chains/", a["network"].s, "/get_abi/",
            a["contract"].s >>
    [] h = "getSource" ->
         << BASE_URL(h), "/internal/chains/", a["network"].s, "/get_source/",
            a["contract"].s >>
    [] h = "getTransactionHistory" ->
         << BASE_URL(h), "/internal/chains/", a["network"].s,
            "/transaction-history" >>
    [] h = "getNativeBalance" ->
         << BASE_URL(h), "/chains/", a["network"].s, "/balance/",
            a["address"].s >>
    [] h = "getTokenBalancesOnNetwork" ->
         << BASE_URL(h), "/token/balance/", a["address"].s, "/",
            a["network"].s >>
    [] h = "contracts.readContractState" ->
         << BASE_URL(h), "/", a["network"].s, "/contract/read" >>

\* the keys of the request body
PayloadKeys(h) ==
  CASE h \in {"readContractState", "contracts.readContractState"} ->
         {"contract", "method", "inputs", "outputs"}
    [] h = "getEvents" -> {"addresses", "topic", "optionalTopics"}
    [] h = "buildEventTopic" -> {"name", "arguments"}
    [] h = "getTransactionHistory" ->
         {"user", "contract", "methodId", "startBlock", "includeData"}
    [] OTHER -> {}

\* handlers whose parameters have no default values
ParamNoDefaults(h, a, n) == a[n]

\* a parameter with a default value takes it when the argument is undefined;
\* optionalTopics || [] is the empty array for null as well
Param(h, a, n) ==
  CASE h = "getEvents" /\ n = "optionalTopics"
         /\ a[n].k \in {"undefined", "null"} -> VArr(<<>>)
    [] h = "getTransactionHistory" /\ n = "includeData"
         /\ a[n].k = "undefined" -> VBool("true")
    [] OTHER -> a[n]

Payload(h, a) ==
  [n \in AllFields |-> IF n \in PayloadKeys(h) THEN Param(h, a, n)
                       ELSE VUndefined]

Headers(h, token) ==
  IF h = "contracts.readContractState"
  THEN [contentType |-> "application/json", authName |-> "Authorization",
        authValue |-> << "Bearer ", token >>]
  ELSE [contentType |-> "application/json", authName |-> "X-BANKLESS-TOKEN",
        authValue |-> << token >>]

NoHeaders == [contentType |-> "", authName |-> "", authValue |-> <<>>]

Request(h, a, token) ==
  [method |-> HttpMethod(h), url |-> Endpoint(h, a),
   hasBody |-> HttpMethod(h) = "POST", body |-> Payload(h, a),
   headers |-> Headers(h, token)]

NoRequest ==
  [method |-> "", url |-> <<>>, hasBody |-> FALSE, body |-> NoFields,
   headers |-> NoHeaders]

(***************************************************************************)
(* What the awaited axios call ends with: a 2xx response with its data, an *)
(* AxiosError that carries the response of a failed status, or an          *)
(* AxiosError without response (network error, timeout).                   *)
(***************************************************************************)
Resp(kind, status, data) == [kind |-> kind, status |-> status, data |-> data]
NoResp == Resp("none", 0, NoBody)

\* AxiosError.message
AxiosMessage(resp) ==
  IF resp.kind = "http"
  THEN << "Request failed with status code ", ToString(resp.status) >>
  ELSE << "Network Error" >>

\* error.status || 'unknown': the status read from the error, which has none
StatusCodeOfError(resp) == "unknown"

\* error.response?.status || 'unknown'
StatusCode(resp) ==
  IF resp.kind = "http" /\ resp.status # 0 THEN ToString(resp.status)
  ELSE "unknown"

\* error.response?.data?.message || error.message
ErrorMessage(resp) ==
  IF resp.kind = "http" /\ resp.data.message # "" THEN << resp.data.message >>
  ELSE AxiosMessage(resp)

\* the message of the 404 branch of each handler
NotFoundMessage(h, a, resp) ==
  CASE h = "getNativeBalance" -> << "Address not found: ", a["address"].s >>
    [] h = "getTokenBalancesOnNetwork" ->
         << "Address or network not found: ", a["address"].s, " on ",
            a["network"].s >>
    [] OTHER -> << "Not Found: " >> \o ErrorMessage(resp)

\* the catch block of a handler, for an AxiosError
Classify(h, a, resp, date) ==
  LET statusCode == StatusCode(resp)
      errorMessage == ErrorMessage(resp)
  IN CASE statusCode \in {"401", "403"} ->
            BanklessAuthenticationError(
              << "Authentication Failed: " >> \o errorMessage)
       [] statusCode = "404" ->
            BanklessResourceNotFoundError(NotFoundMessage(h, a, resp))
       [] statusCode = "422" ->
            BanklessValidationError(
              << "Validation Error: " >> \o errorMessage,
              IF resp.kind = "http" THEN resp.data ELSE NoBody)
       [] statusCode = "429" ->
            BanklessRateLimitError(
              << "Rate Limit Exceeded: " >> \o errorMessage,
              setSeconds(date, ResetSeconds))
       [] OTHER ->
            PlainError(<< "Bankless API Error (", statusCode, "): " >>
                         \o errorMessage)

(***************************************************************************)
(* The tool dispatcher of index.ts.                                        *)
(***************************************************************************)
\* zodToJsonSchema(schema): the properties and the required ones
zodToJsonSchema(schema) ==
  [type |-> "object",
   properties |-> [i \in 1..Len(schema) |->
                     [name |-> schema[i].name, type |-> schema[i].type,
                      items |-> schema[i].item,
                      nullable |-> schema[i].nullable]],
   required |-> {schema[i].name : i \in
                   {j \in 1..Len(schema) :
                      ~schema[j].optional /\ ~schema[j].hasDefault}}]

Tool(name, description, schema) ==
  [name |-> name, description |-> description,
   inputSchema |-> zodToJsonSchema(schema)]

\* a catalog that depends on the configuration: empty without a token
ListToolsWhenConfigured ==
  IF env.k = "undefined" THEN <<>>
  ELSE << Tool("read_contract", "Read contract state from a blockchain",
               ReadContractSchema),
          Tool("get_proxy",
               "Gets the proxy address for a given network and contract",
               GetProxySchema) >>

\* the tools array of the ListTools handler
ListTools ==
  << Tool("read_contract", "Read contract state from a blockchain",
          ReadContractSchema),
     Tool("get_proxy",
          "Gets the proxy address for a given network and contract",
          GetProxySchema),
     Tool("get_events",
          "Fetches event logs for a given network and filter criteria",
          GetEventLogsSchema),
     Tool("build_event_topic",
          "Builds an event topic signature based on event name and arguments",
          BuildEventTopicSchema) >>

\* the case labels of the switch of the CallTool handler
SwitchCases == {"read_contract", "get_proxy", "get_events", "build_event_topic"}

\* a switch whose get_events case parses with the schema of get_proxy
CaseSchemaOfProxy(name) ==
  CASE name = "read_contract" -> ReadContractSchema
    [] name = "get_proxy" -> GetProxySchema
    [] name = "get_events" -> GetProxySchema
    [] name = "build_event_topic" -> BuildEventTopicSchema

\* the schema each case parses the arguments with
CaseSchema(name) ==
  CASE name = "read_contract" -> ReadContractSchema
    [] name = "get_proxy" -> GetProxySchema
    [] name = "get_events" -> GetEventLogsSchema
    [] name = "build_event_topic" -> BuildEventTopicSchema

\* the handler each case awaits
CaseHandler(name) ==
  CASE name = "read_contract" -> "readContractState"
    [] name = "get_proxy" -> "getProxy"
    [] name = "get_events" -> "getEvents"
    [] name = "build_event_topic" -> "buildEventTopic"

\* the parsed arguments each case passes to its handler
CaseArgs(name, args) ==
  LET passed ==
        CASE name = "read_contract" ->
               {"network", "contract", "method", "inputs", "outputs"}
          [] name = "get_proxy" -> {"network", "contract"}
          [] name = "get_events" ->
               {"network", "addresses", "topic", "optionalTopics"}
          [] name = "build_event_topic" -> {"network", "name", "arguments"}
  IN [n \in AllFields |-> IF n \in passed THEN args[n] ELSE VUndefined]

\* JSON.stringify(error.errors)
RECURSIVE StringifyIssues(_, _)
StringifyIssues(issues, i) ==
  IF i > Len(issues) THEN <<>>
  ELSE << "{code:", issues[i].code, ",expected:", issues[i].expected,
          ",received:", issues[i].received, ",path:" >>
         \o issues[i].path \o << "}" >> \o StringifyIssues(issues, i + 1)

\* JSON.stringify(result, null, 2)
StringifyResult(result) ==
  IF result.k = "string" THEN << "\"", result.s, "\"" >> ELSE << result.s >>

\* JSON.stringify(error.response)
StringifyBody(body) == << "{", body.id, ":", body.message, "}" >>

\* resetAt.toISOString()
toISOString(date) == << "T", ToString(date), "Z" >>

\* a formatter that renders every kind as the base class is rendered
formatBanklessErrorBaseOnly(error) ==
  << "Bankless API Error: " >> \o error.message

formatBanklessError(error) ==
  CASE error.cls = "BanklessValidationError" ->
         << "Validation Error: " >> \o error.message
           \o (IF Truthy(error.response)
               THEN << "\nDetails: " >> \o StringifyBody(error.response)
               ELSE <<>>)
    [] error.cls = "BanklessResourceNotFoundError" ->
         << "Not Found: " >> \o error.message
    [] error.cls = "BanklessAuthenticationError" ->
         << "Authentication Failed: " >> \o error.message
    [] error.cls = "BanklessRateLimitError" ->
         << "Rate Limit Exceeded: " >> \o error.message
           \o << "\nResets at: " >> \o toISOString(error.resetAt)
    [] OTHER -> << "Bankless API Error: " >> \o error.message

\* a catch block that formats whatever is thrown
CaughtFormatsAll(error) ==
  IF error.cls = "ZodError"
  THEN PlainError(<< "Invalid input: " >> \o StringifyIssues(error.issues, 1))
  ELSE PlainError(formatBanklessError(error))

\* a catch block that wraps what is no Domain Error in an error of its own
CaughtWrapsOthers(error) ==
  IF error.cls = "ZodError"
  THEN PlainError(<< "Invalid input: " >> \o StringifyIssues(error.issues, 1))
  ELSE IF isBanklessError(error)
       THEN PlainError(formatBanklessError(error))
       ELSE PlainError(<< "Bankless API Error: " >> \o error.message)

\* the catch block of the CallTool handler: what the caller receives
Caught(error) ==
  IF error.cls = "ZodError"
  THEN PlainError(<< "Invalid input: " >> \o StringifyIssues(error.issues, 1))
  ELSE IF isBanklessError(error)
       THEN PlainError(formatBanklessError(error))
       ELSE error

(***************************************************************************)
(* The state machine.  task is the invocation in progress:                 *)
(*   pc        "idle", "awaiting" (the axios call is in flight), "done"    *)
(*   via       "list", "call" (the CallTool handler), "direct" (a handler  *)
(*             called as a function)                                       *)
(*   name, hasArgs, args   the request (params.name, params.arguments)     *)
(*   handler, hargs        the handler that runs and its arguments         *)
(*   token                 the token the handler read from the environment *)
(*   calls, request        the axios calls made and the last one           *)
(*   response              what the axios call ended with                  *)
(*   thrown                what the handler, or the dispatcher's try       *)
(*                         block, threw                                    *)
(*   outcome               what the caller receives, and when              *)
(***************************************************************************)
NoValue == Scalar("none", "")

Outcome(kind, text, error, value, tools, at) ==
  [kind |-> kind, text |-> text, error |-> error, value |-> value,
   tools |-> tools, at |-> at]
NoOutcome == Outcome("none", <<>>, NoError, NoValue, <<>>, NoTime)

IdleTask ==
  [pc |-> "idle", via |-> "none", name |-> "", hasArgs |-> FALSE,
   args |-> NoFields, handler |-> "none", hargs |-> NoFields,
   token |-> Undefined, calls |-> 0,
   request |-> NoRequest, response |-> NoResp, thrown |-> NoError,
   outcome |-> NoOutcome]

\* if (!token)
Falsy(token) == token.k = "undefined" \/ token.s = ""

\* the invocation ends with a failure: the dispatcher's catch block decides
\* what a tool call's caller receives, a direct caller receives the error
Fail(t, error, date) ==
  [t EXCEPT !.pc = "done", !.thrown = error,
            !.outcome = Outcome("failure",
                                IF t.via = "call" THEN Caught(error).message
                                ELSE error.message,
                                IF t.via = "call" THEN Caught(error) ELSE error,
                                NoValue, <<>>, date)]

\* a handler that sends the request whatever the token is
HandlerStartNoTokenCheck(t, h, a, token, date) ==
  [t EXCEPT !.handler = h, !.hargs = a, !.token = token, !.pc = "awaiting",
            !.calls = t.calls + 1, !.request = Request(h, a, token.s)]

\* a handler from its entry to the await of the axios call
HandlerStart(t, h, a, token, date) ==
  LET u == [t EXCEPT !.handler = h, !.hargs = a, !.token = token]
  IN IF Falsy(token)
     THEN Fail(u, BanklessAuthenticationError(
                    << "BANKLESS_API_TOKEN environment variable is not set" >>),
               date)
     ELSE [u EXCEPT !.pc = "awaiting", !.calls = t.calls + 1,
                    !.request = Request(h, a, token.s)]

\* the message of the last throw of each handler, for what is no AxiosError
FailedMessage(h, message) ==
  << CASE h \in {"readContractState", "contracts.readContractState"} ->
            "Failed to read contract state: "
       [] h = "getProxy" -> "Failed to get proxy information: "
       [] h = "getEvents" -> "Failed to fetch event logs: "
       [] h = "buildEventTopic" -> "Failed to build event topic: "
       [] h = "getAbi" -> "Failed to get contract ABI: "
       [] h = "getSource" -> "Failed to get contract source: "
       [] h = "getTransactionHistory" -> "Failed to get transaction history: "
       [] h = "getNativeBalance" -> "Failed to get native balance: "
       [] h = "getTokenBalancesOnNetwork" -> "Failed to get token balances: " >>
    \o message

\* a response body whose text matters character by character: a JSON string
\* (k is "string"), or a JSON number, whose chars are what toString gives
Chars(k, chars) == [k |-> k, chars |-> chars]
IsChars(data) == "chars" \in DOMAIN data

\* response.data.toString()
toString(data) ==
  IF IsChars(data) THEN data.chars
  ELSE IF data.k = "object" THEN << "[object Object]" >> ELSE << data.s >>

DigitChars == << "0", "1", "2", "3", "4", "5", "6", "7", "8", "9" >>
IsDigit(c) == \E d \in 1..Len(DigitChars) : DigitChars[d] = c
DigitOf(c) == (CHOOSE d \in 1..Len(DigitChars) : DigitChars[d] = c) - 1

\* the texts BigInt converts: decimal digits, with a sign before them or
\* without (the empty text converts to zero); texts with white space or a
\* radix prefix are not among the answers of the model
IsIntegerLiteral(chars) ==
  \A i \in (IF Len(chars) > 1 /\ chars[1] \in {"+", "-"} THEN 2 ELSE 1)
            ..Len(chars) : IsDigit(chars[i])

\* a BigInt: its sign and its decimal digits, the highest first, zero has none
BigIntValue(neg, digits) == [k |-> "bigint", neg |-> neg, digits |-> digits]

\* the sign of an integer literal, and the value of its digits: the digits
\* after the zeros they start with
Signed(chars) == Len(chars) > 1 /\ chars[1] \in {"+", "-"}
Magnitude(chars) ==
  LET from == IF Signed(chars) THEN 2 ELSE 1
      zeros == CHOOSE z \in 0..(Len(chars) - from + 1) :
                 /\ \A i \in from..(from + z - 1) : chars[i] = "0"
                 /\ from + z > Len(chars) \/ chars[from + z] # "0"
  IN [i \in 1..(Len(chars) - from + 1 - zeros) |->
        DigitOf(chars[from - 1 + zeros + i])]

\* a conversion through a Number, which keeps 17 significant digits
BigIntThroughNumber(chars) ==
  LET exact == Magnitude(chars)
  IN BigIntValue(Signed(chars) /\ chars[1] = "-" /\ exact # <<>>,
                 [i \in 1..Len(exact) |-> IF i <= 17 THEN exact[i] ELSE 0])

\* BigInt(text), for a text that is an integer literal
BigInt(chars) ==
  LET digits == Magnitude(chars)
  IN BigIntValue(Signed(chars) /\ chars[1] = "-" /\ digits # <<>>, digits)

\* BigInt(response.data.toString()) throws inside the try block when the
\* text of the data is no integer literal: the text of an object is none
ReturnThrows(h, data) ==
  h = "getNativeBalance" /\ ~IsIntegerLiteral(toString(data))

\* a handler that returns the key topic of the data, which a string has not
HandlerReturnTopicKey(h, data) ==
  IF h = "getNativeBalance" THEN BigInt(toString(data))
  ELSE IF h = "buildEventTopic" THEN Undefined ELSE data

\* the value a handler returns for a 2xx response
HandlerReturn(h, data) ==
  IF h = "getNativeBalance" THEN BigInt(toString(data)) ELSE data

\* a handler that sends the request once more when no response came
HandlerEndRetry(t, resp, date) ==
  IF resp.kind = "noresponse" /\ t.calls < 2
  THEN [t EXCEPT !.calls = t.calls + 1]
  ELSE LET u == [t EXCEPT !.response = resp]
       IN IF resp.kind = "ok"
          THEN IF ReturnThrows(t.handler, resp.data)
               THEN Fail(u, PlainError(FailedMessage(t.handler, <<>>)), date)
               ELSE LET result == HandlerReturn(t.handler, resp.data)
                    IN [u EXCEPT !.pc = "done",
                                 !.outcome =
                                    Outcome("success",
                                            IF t.via = "call"
                                            THEN StringifyResult(result)
                                            ELSE <<>>,
                                            NoError, result, <<>>, date)]
          ELSE Fail(u, Classify(t.handler, t.hargs, resp, date), date)

\* a handler whose promise is never settled when no response came back
HandlerEndLost(t, resp, date) ==
  IF resp.kind = "noresponse"
  THEN [t EXCEPT !.pc = "lost", !.response = resp]
  ELSE HandlerEndRetry(t, resp, date)

\* a handler from the end of the axios call to its return or throw
HandlerEnd(t, resp, date) ==
  LET u == [t EXCEPT !.response = resp]
  IN IF resp.kind = "ok"
     THEN IF ReturnThrows(t.handler, resp.data)
          THEN Fail(u, PlainError(FailedMessage(t.handler,
                                    << "Cannot convert " >>
                                      \o toString(resp.data)
                                      \o << " to a BigInt" >>)), date)
          ELSE LET result == HandlerReturn(t.handler, resp.data)
               IN [u EXCEPT !.pc = "done",
                            !.outcome =
                               Outcome("success",
                                       IF t.via = "call"
                                       THEN StringifyResult(result) ELSE <<>>,
                                       NoError, result, <<>>, date)]
     ELSE Fail(u, Classify(t.handler, t.hargs, resp, date), date)

\* a CallTool handler that looks the name up without looking at the arguments
CallToolStartNoArgsCheck(t, name, hasArgs, args, token, date) ==
  LET u == [t EXCEPT !.via = "call", !.name = name, !.hasArgs = hasArgs,
                     !.args = args]
  IN IF name \notin SwitchCases
     THEN Fail(u, PlainError(<< "Unknown tool: ", name >>), date)
     ELSE LET parsed == Parse(CaseSchema(name), args)
          IN IF ~parsed.ok THEN Fail(u, ZodError(parsed.issues), date)
             ELSE HandlerStart(u, CaseHandler(name),
                               CaseArgs(name, parsed.data), token, date)

\* a CallTool handler that looks for the token before anything else
CallToolStartTokenFirst(t, name, hasArgs, args, token, date) ==
  LET u == [t EXCEPT !.via = "call", !.name = name, !.hasArgs = hasArgs,
                     !.args = args]
  IN IF Falsy(token)
     THEN Fail(u, BanklessAuthenticationError(
                    << "BANKLESS_API_TOKEN environment variable is not set" >>),
               date)
     ELSE IF ~hasArgs
          THEN Fail(u, PlainError(<< "Arguments are required" >>), date)
          ELSE IF name \notin SwitchCases
               THEN Fail(u, PlainError(<< "Unknown tool: ", name >>), date)
               ELSE LET parsed == Parse(CaseSchema(name), args)
                    IN IF ~parsed.ok
                       THEN Fail(u, ZodError(parsed.issues), date)
                       ELSE HandlerStart(u, CaseHandler(name),
                                         CaseArgs(name, parsed.data), token,
                                         date)

\* a CallTool handler that hands the arguments of the request to the handler
\* as they came, without parsing them
CallToolStartNoParse(t, name, hasArgs, args, token, date) ==
  LET u == [t EXCEPT !.via = "call", !.name = name, !.hasArgs = hasArgs,
                     !.args = args]
  IN IF ~hasArgs THEN Fail(u, PlainError(<< "Arguments are required" >>), date)
     ELSE IF name \notin SwitchCases
          THEN Fail(u, PlainError(<< "Unknown tool: ", name >>), date)
          ELSE HandlerStart(u, CaseHandler(name), CaseArgs(name, args),
                            token, date)

\* the CallTool handler from its entry to the await of its handler
CallToolStart(t, name, hasArgs, args, token, date) ==
  LET u == [t EXCEPT !.via = "call", !.name = name, !.hasArgs = hasArgs,
                     !.args = args]
  IN IF ~hasArgs THEN Fail(u, PlainError(<< "Arguments are required" >>), date)
     ELSE IF name \notin SwitchCases
          THEN Fail(u, PlainError(<< "Unknown tool: ", name >>), date)
          ELSE LET parsed == Parse(CaseSchema(name), args)
               IN IF ~parsed.ok THEN Fail(u, ZodError(parsed.issues), date)
                  ELSE HandlerStart(u, CaseHandler(name),
                                    CaseArgs(name, parsed.data), token, date)

(***************************************************************************)
(* The inputs: the token of the environment, the requests of the callers   *)
(* and the answers of the remote service.                                  *)
(***************************************************************************)
EnvTokens == {Undefined, Str(""), Str("tokA")}

With(a, n, v) == [a EXCEPT ![n] = v]

GoodArgs(name) ==
  CASE name = "read_contract" ->
         [NoFields EXCEPT
            !["network"] = VStr("ethereum"), !["contract"] = VStr("0xabc"),
            !["method"] = VStr("balanceOf"),
            !["inputs"] = VArr(<< EObj(Str("address"), Str("0xdef")) >>),
            !["outputs"] = VArr(<< EObj(Str("uint256"), Undefined) >>)]
    [] name = "get_proxy" ->
         [NoFields EXCEPT
            !["network"] = VStr("ethereum"), !["contract"] = VStr("0xabc")]
    [] name = "get_events" ->
         [NoFields EXCEPT
            !["network"] = VStr("ethereum"),
            !["addresses"] = VArr(<< EStr("0xabc") >>),
            !["topic"] = VStr("0xddf2"),
            !["optionalTopics"] = VArr(<< EStr("0xef01"), ENull >>)]
    [] name = "build_event_topic" ->
         [NoFields EXCEPT
            !["network"] = VStr("ethereum"),
            !["name"] = VStr("Transfer(address,uint256)"),
            !["arguments"] = VArr(<< EObj(Str("address"), Undefined),
                                     EObj(Str("uint256"), Str("extra")) >>)]

SchemaFields(schema) == {schema[i].name : i \in 1..Len(schema)}

\* arrays with an element the item schema rejects
BadArrays ==
  { VArr(<< ENum("7") >>), VArr(<< EObj(Undefined, Str("0xdef")) >>),
    VArr(<< EObj(Str("address"), Undefined), EObj(Num("7"), Undefined) >>) }

\* strings that name no network and no contract
OddStrings == {"", "0xZZ/../?x=1#y"}

\* the arguments sent for a catalogued tool: the good ones, and the good ones
\* with one key left out, of another type, null, empty, or added, or with a
\* network or contract that is an odd string
ToolArgs(name) ==
  LET good == GoodArgs(name)
      fields == SchemaFields(CaseSchema(name))
      arrays == {f \in fields : good[f].k = "array"}
  IN {good, NoFields, With(good, "user", VStr("0xfff"))}
       \cup {With(good, f, VStr(s)) :
               f \in fields \cap {"network", "contract"}, s \in OddStrings}
       \cup {With(good, f, VUndefined) : f \in fields}
       \cup {With(good, f, VNum("7")) : f \in fields}
       \cup {With(good, f, VNull) : f \in fields}
       \cup {With(good, f, VArr(<<>>)) : f \in arrays}
       \cup {With(good, f, v) : f \in arrays, v \in BadArrays}

\* names the switch has no case for: an operation of the handlers' module that
\* is not registered, and a name of no operation
OtherNames == {"get_abi", "no_such_tool"}
ToolNames == SwitchCases \cup OtherNames

ArgsFor(name) ==
  IF name \in SwitchCases THEN ToolArgs(name)
  ELSE {NoFields, GoodArgs("get_proxy")}

\* the arguments of a direct call of a handler, as its signature types them
HandlerArgs(h) ==
  LET base == [NoFields EXCEPT !["network"] = VStr("base")]
  IN CASE h \in {"readContractState", "contracts.readContractState"} ->
            {CaseArgs("read_contract", GoodArgs("read_contract"))}
       [] h \in {"getProxy", "getAbi", "getSource"} ->
            {With(base, "contract", VStr("0xabc")),
             With(base, "contract", VStr(""))}
       [] h = "getEvents" ->
            {GoodArgs("get_events"),
             With(GoodArgs("get_events"), "optionalTopics", VUndefined)}
       [] h = "buildEventTopic" -> {GoodArgs("build_event_topic")}
       [] h = "getTransactionHistory" ->
            {With(base, "user", VStr("0xfff")),
             With(With(With(base, "user", VStr("0xfff")), "contract", VNull),
                  "includeData", VBool("false"))}
       [] h \in TokenHandlers ->
            {With(base, "address", VStr("0x123")),
             With(With(base, "address", VStr("")), "network", VStr(""))}

\* failed statuses: each one the catch block names, and some it does not
Statuses == {400, 401, 403, 404, 422, 429, 500, 503}

Bodies == {EmptyBody, Body("json", "execution reverted"), Body("jsonNoMessage", "")}

OkData ==
  {Str("0xddf252ad1be2c89b"),
   Scalar("object", "{implementation:0xefgh}")}

\* the longest of the decimal strings taken character by character
MaxDigits == 3

\* 2^256 - 1, a balance of 78 digits
Uint256Max ==
  << "1", "1", "5", "7", "9", "2", "0", "8", "9", "2", "3", "7", "3",
     "1", "6", "1", "9", "5", "4", "2", "3", "5", "7", "0", "9", "8",
     "5", "0", "0", "8", "6", "8", "7", "9", "0", "7", "8", "5", "3",
     "2", "6", "9", "9", "8", "4", "6", "6", "5", "6", "4", "0", "5",
     "6", "4", "0", "3", "9", "4", "5", "7", "5", "8", "4", "0", "0",
     "7", "9", "1", "3", "1", "2", "9", "6", "3", "9", "9", "3", "5" >>

\* the texts the balance endpoint answers with: every string of up to
\* MaxDigits of the digits 0, 1 and 9, balances no Number holds exactly, and
\* texts that are no decimal string
BalanceTexts ==
  UNION {[1..n -> {"0", "1", "9"}] : n \in 1..MaxDigits}
    \cup { << "1", "0", "0", "0", "0", "0", "0", "0", "0", "0", "0", "0", "0",
     "0", "0", "0", "0", "0", "0" >>,
           << "9", "0", "0", "7", "1", "9", "9", "2", "5", "4", "7", "4", "0",
     "9", "9", "3" >>,
           Uint256Max,
           <<>>, << "1", ".", "5" >>, << "-", "1" >>, << "-" >> }

BalanceData ==
  {Chars("string", c) : c \in BalanceTexts}
    \cup {Chars("number", << "4", "2" >>),
          Chars("number", << "1", "e", "+", "2", "1" >>),
          Scalar("object", "{balance:42}")}

\* the outcomes of the axios call of a handler
ResponsesFor(h) ==
  {Resp("ok", 200, d) :
     d \in IF h = "getNativeBalance" THEN BalanceData ELSE OkData}
    \cup {Resp("http", st, b) : st \in Statuses, b \in Bodies}
    \cup {Resp("noresponse", 0, NoBody)}

(***************************************************************************)
(* Several tool calls at a time.  The server awaits nothing between the    *)
(* requests it receives, so a second CallTool handler may start while the  *)
(* axios call of the first is in flight.  A job is one such call: t holds  *)
(* the locals of its handlers, asked what its caller sent, env the token   *)
(* of the environment when it started, answer what the remote service      *)
(* answered to its axios call, and after the jobs that were over when it   *)
(* started.                                                                *)
(***************************************************************************)
NJobs == 2

Ask(name, hasArgs, args) == [name |-> name, hasArgs |-> hasArgs, args |-> args]
NoAsk == Ask("", FALSE, NoFields)

Job(t, asked, token, answer, after) ==
  [t |-> t, asked |-> asked, env |-> token, answer |-> answer, after |-> after]
IdleJob == Job(IdleTask, NoAsk, Undefined, NoResp, {})

\* the requests the callers send in the runs of several tool calls
Asks ==
  {Ask("get_proxy", TRUE, GoodArgs("get_proxy")),
   Ask("get_proxy", TRUE, With(GoodArgs("get_proxy"), "contract", VUndefined)),
   Ask("no_such_tool", TRUE, NoFields),
   Ask("get_proxy", FALSE, NoFields),
   Ask("no_such_tool", FALSE, NoFields)}

\* the tokens of the environment in these runs: two that differ
JobTokens == {Undefined, Str("tokA"), Str("tokB")}

\* the answers of the remote service in these runs
JobResponses ==
  {Resp("ok", 200, d) : d \in OkData}
    \cup {Resp("http", 404, Body("json", "execution reverted")),
          Resp("http", 429, EmptyBody),
          Resp("noresponse", 0, NoBody)}

(***************************************************************************)
(* The actions.                                                            *)
(***************************************************************************)
Init ==
  /\ env \in EnvTokens
  /\ now = 0
  /\ task = IdleTask
  /\ listed = {}
  /\ jobs = [j \in 1..NJobs |-> IdleJob]

\* the environment sets or unsets BANKLESS_API_TOKEN
SetEnv(token) ==
  /\ token # env
  /\ env' = token
  /\ UNCHANGED <<now, task, listed, jobs>>

Tick ==
  /\ now < MaxTicks * TickStep
  /\ now' = now + TickStep
  /\ UNCHANGED <<env, task, listed, jobs>>

\* the ListTools handler
List ==
  /\ task.pc = "idle"
  /\ task' = [IdleTask EXCEPT
                !.pc = "done", !.via = "list",
                !.outcome = Outcome("tools", <<>>, NoError, NoValue,
                                    ListTools, now)]
  /\ listed' = listed \cup {ListTools}
  /\ UNCHANGED <<env, now, jobs>>

\* the CallTool handler, up to the await of the axios call or to its failure
CallTool(name, hasArgs, args) ==
  /\ task.pc = "idle"
  /\ task' = CallToolStart(IdleTask, name, hasArgs, args, env, now)
  /\ UNCHANGED <<env, now, listed, jobs>>

\* a handler called as a function, up to the await or to its failure
Direct(h, a) ==
  /\ task.pc = "idle"
  /\ task' = HandlerStart([IdleTask EXCEPT !.via = "direct", !.name = h],
                          h, a, env, now)
  /\ UNCHANGED <<env, now, listed, jobs>>

\* the axios call ends: the handler returns or throws, and the CallTool
\* handler returns the text or throws what its catch block makes of the error
Respond(resp) ==
  /\ task.pc = "awaiting"
  /\ task' = HandlerEnd(task, resp, now)
  /\ UNCHANGED <<env, now, listed, jobs>>

\* the caller has received the outcome
Deliver ==
  /\ task.pc = "done"
  /\ task' = IdleTask
  /\ UNCHANGED <<env, now, listed, jobs>>

Next ==
  \/ \E token \in EnvTokens : SetEnv(token)
  \/ Tick
  \/ List
  \/ \E name \in ToolNames : \E args \in ArgsFor(name) : CallTool(name, TRUE, args)
  \/ \E name \in ToolNames : CallTool(name, FALSE, NoFields)
  \/ \E h \in Handlers : \E a \in HandlerArgs(h) : Direct(h, a)
  \/ \E resp \in ResponsesFor(task.handler) : Respond(resp)
  \/ Deliver

Spec == Init /\ [][Next]_vars

\* the steps of the server while the clock stands still
NextLive ==
  \/ \E token \in EnvTokens : SetEnv(token)
  \/ List
  \/ \E name \in ToolNames : \E args \in ArgsFor(name) : CallTool(name, TRUE, args)
  \/ \E name \in ToolNames : CallTool(name, FALSE, NoFields)
  \/ \E h \in Handlers : \E a \in HandlerArgs(h) : Direct(h, a)
  \/ \E resp \in ResponsesFor(task.handler) : Respond(resp)
  \/ Deliver

\* the runs in which a pending axios call ends: the promise of axios.get or
\* axios.post is settled with a response or rejected with a failure, and the
\* continuation of the await then runs
SpecLive ==
  /\ Init
  /\ [][NextLive]_vars
  /\ WF_vars(\E resp \in ResponsesFor(task.handler) : Respond(resp))

(***************************************************************************)
(* The runs of several tool calls.                                         *)
(***************************************************************************)
InitJobs ==
  /\ env \in JobTokens
  /\ now = 0
  /\ task = IdleTask
  /\ listed = {}
  /\ jobs = [j \in 1..NJobs |-> IdleJob]

SetJobEnv(token) ==
  /\ token # env
  /\ env' = token
  /\ UNCHANGED <<now, task, listed, jobs>>

\* a CallTool handler whose handlers keep the token in a variable of the
\* module: the first handler that runs reads it and the later ones reuse it
JobCallTokenCached(j, ask) ==
  /\ jobs[j].t.pc = "idle"
  /\ \A i \in 1..(j - 1) : jobs[i].t.pc # "idle"
  /\ LET ran == {i \in 1..NJobs : jobs[i].t.handler # "none"}
         token == IF ran = {} THEN env
                  ELSE jobs[CHOOSE i \in ran : \A k \in ran : i <= k].t.token
     IN jobs' = [jobs EXCEPT ![j] =
                   Job(CallToolStart(IdleTask, ask.name, ask.hasArgs, ask.args,
                                     token, now),
                       ask, env, NoResp,
                       {i \in 1..NJobs : jobs[i].t.pc = "done"})]
  /\ UNCHANGED <<env, now, task, listed>>

\* job j: the CallTool handler, up to the await of the axios call or to its
\* failure; the jobs start in the order of their numbers
JobCall(j, ask) ==
  /\ jobs[j].t.pc = "idle"
  /\ \A i \in 1..(j - 1) : jobs[i].t.pc # "idle"
  /\ jobs' = [jobs EXCEPT ![j] =
                Job(CallToolStart(IdleTask, ask.name, ask.hasArgs, ask.args,
                                  env, now),
                    ask, env, NoResp,
                    {i \in 1..NJobs : jobs[i].t.pc = "done"})]
  /\ UNCHANGED <<env, now, task, listed>>

\* handlers that keep the response in a variable of the module: every job
\* that awaits its axios call goes on with the response that came last
JobRespondShared(j, resp) ==
  /\ jobs[j].t.pc = "awaiting"
  /\ jobs' = [i \in 1..NJobs |->
                IF i = j
                THEN [jobs[i] EXCEPT !.t = HandlerEnd(jobs[i].t, resp, now),
                                     !.answer = resp]
                ELSE IF jobs[i].t.pc = "awaiting"
                     THEN [jobs[i] EXCEPT
                             !.t = HandlerEnd(jobs[i].t, resp, now)]
                     ELSE jobs[i]]
  /\ UNCHANGED <<env, now, task, listed>>

\* job j: its axios call ends, in whichever order the calls in flight end
JobRespond(j, resp) ==
  /\ jobs[j].t.pc = "awaiting"
  /\ jobs' = [jobs EXCEPT ![j].t = HandlerEnd(jobs[j].t, resp, now),
                          ![j].answer = resp]
  /\ UNCHANGED <<env, now, task, listed>>

NextJobs ==
  \/ \E token \in JobTokens : SetJobEnv(token)
  \/ \E j \in 1..NJobs : \E ask \in Asks : JobCall(j, ask)
  \/ \E j \in 1..NJobs : \E resp \in JobResponses : JobRespond(j, resp)

SpecJobs == InitJobs /\ [][NextJobs]_vars

(***************************************************************************)
(* Properties.                                                             *)
(***************************************************************************)
Contains(seq, x) == \E i \in 1..Len(seq) : seq[i] = x

CatalogNames(tools) == {tools[i].name : i \in 1..Len(tools)}

\* the schema the catalog advertises for a name
Advertised(name) ==
  (CHOOSE tool \in {ListTools[i] : i \in 1..Len(ListTools)} :
     tool.name = name).inputSchema

HandlerRan == task.handler # "none"
RemoteFailed == task.pc = "done" /\ task.response.kind \in {"http", "noresponse"}

\* C1: whichever handler runs, through the dispatcher or called as a
\* function, when the token it reads from the environment is unset or empty
\* the invocation is over at once: the handler has thrown a
\* BanklessAuthenticationError, the caller receives a failure, and no axios
\* call was made.
C1_NoTokenFailsWithoutCall ==
  (HandlerRan /\ Falsy(task.token)) =>
     /\ task.pc = "done"
     /\ task.thrown.cls = "BanklessAuthenticationError"
     /\ task.outcome.kind = "failure"
     /\ task.calls = 0
     /\ task.request = NoRequest

C1_Witness ==
  /\ task.via = "call" /\ task.handler = "getEvents"
  /\ task.token = Undefined /\ task.pc = "done"

\* C2: a tool call for a catalogued operation whose arguments lack a key that
\* the advertised schema requires ends with the ZodError turned into the
\* "Invalid input" failure, whose text carries the issues, one of them for
\* the missing key, and no axios call was made.
C2_MissingFieldIsInvalidInput ==
  (/\ task.via = "call" /\ task.hasArgs
   /\ task.name \in CatalogNames(ListTools)
   /\ \E f \in Advertised(task.name).required : task.args[f].k = "undefined")
    =>
     /\ task.pc = "done"
     /\ task.outcome.kind = "failure"
     /\ task.thrown.cls = "ZodError"
     /\ \A f \in Advertised(task.name).required :
          task.args[f].k = "undefined" =>
            \E i \in 1..Len(task.thrown.issues) :
              /\ task.thrown.issues[i].path = <<f>>
              /\ task.thrown.issues[i].received = "undefined"
     /\ task.outcome.text
          = << "Invalid input: " >> \o StringifyIssues(task.thrown.issues, 1)
     /\ task.outcome.error.cls = "Error"
     /\ task.calls = 0
     /\ task.handler = "none"

C2_Witness ==
  /\ task.via = "call" /\ task.name = "get_events" /\ task.hasArgs
  /\ task.args["topic"].k = "undefined" /\ task.args["network"].k = "string"
  /\ task.pc = "done"

\* C3: when the axios call of any handler fails with a status, the class of
\* the error the handler throws is decided by the status: 401 and 403 give
\* BanklessAuthenticationError, 404 BanklessResourceNotFoundError, 422
\* BanklessValidationError with the response body as its detail, 429
\* BanklessRateLimitError, and no other status gives one of these classes.
C3_StatusDecidesKind ==
  (task.pc = "done" /\ task.response.kind = "http") =>
     LET status == task.response.status
         cls == task.thrown.cls
     IN /\ (status \in {401, 403}) <=> (cls = "BanklessAuthenticationError")
        /\ (status = 404) <=> (cls = "BanklessResourceNotFoundError")
        /\ (status = 422) <=> (cls = "BanklessValidationError")
        /\ (status = 422) => (task.thrown.response = task.response.data)
        /\ (status = 429) <=> (cls = "BanklessRateLimitError")

C3_Witness ==
  /\ task.pc = "done" /\ task.handler = "getTokenBalancesOnNetwork"
  /\ task.response.kind = "http" /\ task.response.status = 422
  /\ task.response.data = Body("json", "execution reverted")
  /\ task.thrown.cls = "BanklessValidationError"

\* C4: when the axios call fails with another status, or without response,
\* the handler throws a Domain Error of the generic kind, which
\* isBanklessError recognises, and whose message holds the status when there
\* is one.
C4_OtherFailuresAreGenericDomainErrors ==
  (/\ RemoteFailed
   /\ ~(task.response.kind = "http"
          /\ task.response.status \in {401, 403, 404, 422, 429}))
    =>
     /\ isBanklessError(task.thrown)
     /\ task.thrown.cls = "BanklessError"
     /\ task.response.kind = "http"
          => Contains(task.thrown.message, ToString(task.response.status))

\* C5: a handler whose axios call failed with status 429 throws a
\* BanklessRateLimitError whose resetAt is not before the moment of the
\* failure and not more than 60 seconds after it.
C5_ResetWithinSixtySeconds ==
  (task.pc = "done" /\ task.thrown.cls = "BanklessRateLimitError") =>
     /\ task.outcome.at <= task.thrown.resetAt
     /\ task.thrown.resetAt <= task.outcome.at + 60

\* C6, as claimed: every tool call with a name outside the catalog ends with
\* the "Unknown tool" failure, unformatted, and without an axios call.
C6_UnknownNameAlwaysUnknownTool ==
  (/\ task.via = "call" /\ task.pc # "idle"
   /\ task.name \notin CatalogNames(ListTools))
    =>
     /\ task.pc = "done"
     /\ task.outcome.kind = "failure"
     /\ task.outcome.text = << "Unknown tool: ", task.name >>
     /\ ~isBanklessError(task.thrown)
     /\ task.calls = 0

\* C6, amended: every tool call that has arguments and a name outside the
\* catalog ends with the "Unknown tool" failure: the error thrown is a plain
\* Error, no Domain Error, the caller receives its message as it is, no
\* handler ran and no axios call was made.
C6_UnknownNameWithArguments ==
  (/\ task.via = "call" /\ task.pc # "idle" /\ task.hasArgs
   /\ task.name \notin CatalogNames(ListTools))
    =>
     /\ task.pc = "done"
     /\ task.outcome.kind = "failure"
     /\ task.thrown = PlainError(<< "Unknown tool: ", task.name >>)
     /\ ~isBanklessError(task.thrown)
     /\ task.outcome.error = task.thrown
     /\ task.outcome.text = << "Unknown tool: ", task.name >>
     /\ ~HandlerRan
     /\ task.calls = 0

C6_Witness ==
  /\ task.via = "call" /\ task.name = "get_abi" /\ task.hasArgs
  /\ task.args = GoodArgs("get_proxy") /\ task.pc = "done"

\* C7: a tool call without arguments ends with the error "Arguments are
\* required", a plain Error that is no Domain Error and that the caller
\* receives as it was thrown, whatever the name is: no schema was applied,
\* no handler ran and no axios call was made.
C7_ArgumentsAreRequired ==
  (task.via = "call" /\ task.pc # "idle" /\ ~task.hasArgs) =>
     /\ task.pc = "done"
     /\ task.outcome.kind = "failure"
     /\ task.thrown = PlainError(<< "Arguments are required" >>)
     /\ ~isBanklessError(task.thrown)
     /\ task.outcome.error = task.thrown
     /\ task.outcome.text = << "Arguments are required" >>
     /\ ~HandlerRan
     /\ task.calls = 0

C7_Witness ==
  /\ task.via = "call" /\ ~task.hasArgs /\ task.name = "no_such_tool"
  /\ task.pc = "done" /\ Falsy(env)

\* C8: an invocation makes at most one axios call, and when that call has
\* failed the invocation is over with a failure for the caller: it made one
\* call and the error thrown is the one of that response.
C8_AtMostOneCall ==
  /\ task.calls <= 1
  /\ (task.pc = "awaiting") => (task.calls = 1 /\ task.response = NoResp)
  /\ RemoteFailed =>
       /\ task.calls = 1
       /\ task.outcome.kind = "failure"
       /\ task.thrown.cls # "none"
       /\ task.response.kind = "http" /\ task.response.status = 429
            => task.thrown.cls = "BanklessRateLimitError"

C8_Witness ==
  /\ RemoteFailed /\ task.response.kind = "noresponse" /\ task.via = "call"
  /\ task.calls = 1

\* C9: the catalog holds no name twice, it holds every name the dispatcher
\* has a case for exactly once, and every call of List has returned the
\* same catalog, whatever calls came before it.
C9_ListDeterministicComplete ==
  /\ Cardinality(listed) <= 1
  /\ \A tools \in listed :
       /\ \A i, j \in 1..Len(tools) : tools[i].name = tools[j].name => i = j
       /\ \A name \in SwitchCases :
            Cardinality({i \in 1..Len(tools) : tools[i].name = name}) = 1
  /\ task.outcome.kind = "tools" => task.outcome.tools \in listed

C9_Witness ==
  /\ task.via = "list" /\ task.pc = "done" /\ Len(task.outcome.tools) = 4
  /\ Falsy(env) /\ now > 0

\* C10: List returns the catalog of the nine operations, each with a name
\* and a description that are not empty and a schema.
C10_CatalogOfNine ==
  task.outcome.kind = "tools" =>
     /\ Len(task.outcome.tools) = 9
     /\ Cardinality(CatalogNames(task.outcome.tools)) = 9
     /\ \A i \in 1..Len(task.outcome.tools) :
          /\ task.outcome.tools[i].name # ""
          /\ task.outcome.tools[i].description # ""
          /\ task.outcome.tools[i].inputSchema.type = "object"

\* seq holds the parts of sub one after the other
ContainsSeq(seq, sub) ==
  \E i \in 0..(Len(seq) - Len(sub)) :
    \A j \in 1..Len(sub) : seq[i + j] = sub[j]

\* the label of each kind of Domain Error
KindLabel(cls) ==
  CASE cls = "BanklessValidationError" -> "Validation Error: "
    [] cls = "BanklessResourceNotFoundError" -> "Not Found: "
    [] cls = "BanklessAuthenticationError" -> "Authentication Failed: "
    [] cls = "BanklessRateLimitError" -> "Rate Limit Exceeded: "
    [] OTHER -> "Bankless API Error: "

\* C11: when the handler of a tool call has thrown a Domain Error, the
\* caller receives a failure whose text starts with the label of the kind
\* and holds the message of the error; for a BanklessRateLimitError it also
\* holds the reset time as an ISO timestamp, and for a
\* BanklessValidationError it holds the details, the response body, exactly
\* when the body is not empty.
C11_DomainErrorText ==
  (task.via = "call" /\ task.pc = "done" /\ isBanklessError(task.thrown)) =>
     LET e == task.thrown
         text == task.outcome.text
     IN /\ task.outcome.kind = "failure"
        /\ task.outcome.error = PlainError(text)
        /\ text[1] = KindLabel(e.cls)
        /\ ContainsSeq(text, e.message)
        /\ e.cls = "BanklessRateLimitError"
             => ContainsSeq(text, << "\nResets at: " >> \o toISOString(e.resetAt))
        /\ e.cls = "BanklessValidationError"
             => (Contains(text, "\nDetails: ")
                   <=> e.response \notin {NoBody, EmptyBody})
        /\ (e.cls = "BanklessValidationError"
              /\ e.response \notin {NoBody, EmptyBody})
             => ContainsSeq(text, StringifyBody(e.response))

C11_Witness ==
  /\ task.via = "call" /\ task.pc = "done" /\ task.handler = "readContractState"
  /\ task.thrown.cls = "BanklessValidationError"
  /\ task.thrown.response = Body("json", "execution reverted")
  /\ Contains(task.outcome.text, "\nDetails: ")

KindLabels == {KindLabel(cls) : cls \in BanklessClasses}

\* C12: when the try block of a tool call has thrown what is neither a
\* ZodError nor a Domain Error, the caller receives that very error: the
\* same class, the same message, no label of a Domain Error kind before it.
C12_OtherFailuresUnchanged ==
  (/\ task.via = "call" /\ task.pc = "done"
   /\ task.thrown.cls \notin {"none", "ZodError"}
   /\ ~isBanklessError(task.thrown))
    =>
     /\ task.outcome.kind = "failure"
     /\ task.outcome.error = task.thrown
     /\ task.outcome.text = task.thrown.message
     /\ \A i \in 1..Len(task.outcome.text) :
          task.outcome.text[i] \notin KindLabels

C12_Witness ==
  /\ task.via = "call" /\ task.pc = "done" /\ task.handler = "getProxy"
  /\ task.response.kind = "http" /\ task.response.status = 503
  /\ task.thrown.cls = "Error"
  /\ task.outcome.text
       = << "Bankless API Error (", "503", "): ", "execution reverted" >>

\* a build_event_topic tool call that the remote service answered with a
\* string
TopicAnswered ==
  /\ task.via = "call" /\ task.name = "build_event_topic"
  /\ task.pc = "done"
  /\ task.response.kind = "ok" /\ task.response.data.k = "string"

\* C13, as claimed: a build_event_topic tool call answered with a hash
\* string gives the caller that string, no character added, removed or
\* changed.
C13_TopicTextIsTheString ==
  TopicAnswered =>
     /\ task.outcome.kind = "success"
     /\ task.outcome.text = << task.response.data.s >>

\* C13, amended: a build_event_topic tool call answered with a hash string
\* succeeds; the handler returns the string of the response as it is, and
\* the text the caller receives is its JSON serialization: the string
\* between two double quotes and nothing else.
C13_TopicTextIsTheQuotedString ==
  TopicAnswered =>
     /\ task.outcome.kind = "success"
     /\ task.outcome.value = task.response.data
     /\ task.outcome.text = << "\"", task.response.data.s, "\"" >>

C13_Witness ==
  /\ TopicAnswered
  /\ task.args = GoodArgs("build_event_topic")
  /\ task.response.data = Str("0xddf252ad1be2c89b")
  /\ task.outcome.kind = "success"

\* the number a short sequence of decimal digits stands for
RECURSIVE NumberOf(_, _)
NumberOf(digits, n) ==
  IF n = 0 THEN 0 ELSE 10 * NumberOf(digits, n - 1) + digits[n]

\* the zeros a text starts with
LeadingZeros(chars) ==
  CHOOSE z \in 0..Len(chars) :
    /\ \A i \in 1..z : chars[i] = "0"
    /\ z = Len(chars) \/ chars[z + 1] # "0"

\* getNativeBalance was answered with a JSON string of decimal digits
BalanceAnswered ==
  /\ task.handler = "getNativeBalance" /\ task.pc = "done"
  /\ task.response.kind = "ok"
  /\ IsChars(task.response.data) /\ task.response.data.k = "string"
  /\ Len(task.response.data.chars) > 0
  /\ \A i \in 1..Len(task.response.data.chars) :
       IsDigit(task.response.data.chars[i])

\* C14: when getNativeBalance is answered with a string of decimal digits,
\* however long, it returns a BigInt that is not negative and whose decimal
\* digits are the digits of the string, one for one, after the zeros the
\* string starts with: no digit is rounded or lost.  For the short strings
\* the number the BigInt stands for is the number the string stands for.
C14_BalanceIsExact ==
  BalanceAnswered =>
     LET chars == task.response.data.chars
         z == LeadingZeros(chars)
         value == task.outcome.value
     IN /\ task.outcome.kind = "success"
        /\ value.k = "bigint" /\ ~value.neg
        /\ Len(value.digits) = Len(chars) - z
        /\ \A i \in 1..Len(value.digits) :
             value.digits[i] = DigitOf(chars[i + z])
        /\ Len(chars) <= MaxDigits =>
             NumberOf(value.digits, Len(value.digits))
               = NumberOf([i \in 1..Len(chars) |-> DigitOf(chars[i])],
                          Len(chars))

C14_Witness ==
  /\ BalanceAnswered
  /\ task.response.data.chars = Uint256Max
  /\ task.outcome.kind = "success"
  /\ Len(task.outcome.value.digits) = 78
  /\ task.outcome.value.digits[78] = 5

\* the table of the operations: the method, the path after the base URL and
\* the keys of the payload of the operation a handler implements
TableMethod(h) ==
  IF h \in {"getProxy", "getAbi", "getSource", "getNativeBalance",
            "getTokenBalancesOnNetwork"}
  THEN "GET" ELSE "POST"

TablePath(h, a) ==
  CASE h \in {"readContractState", "contracts.readContractState"} ->
         << "/chains/", a["network"].s, "/contract/read" >>
    [] h = "getProxy" ->
         << "/chains/", a["network"].s, "/contract/", a["contract"].s,
            "/find-proxy" >>
    [] h = "getAbi" ->
         << "/chains/", a["network"].s, "/get_abi/", a["contract"].s >>
    [] h = "getSource" ->
         << "/chains/", a["network"].s, "/get_source/", a["contract"].s >>
    [] h = "getEvents" -> << "/chains/", a["network"].s, "/events/logs" >>
    [] h = "buildEventTopic" ->
         << "/chains/", a["network"].s, "/contract/build-event-topic" >>
    [] h = "getTransactionHistory" ->
         << "/chains/", a["network"].s, "/transaction-history" >>
    [] h = "getNativeBalance" ->
         << "/chains/", a["network"].s, "/balance/", a["address"].s >>
    [] h = "getTokenBalancesOnNetwork" ->
         << "/token/balance/", a["address"].s, "/", a["network"].s >>

TablePayload(h) ==
  CASE h \in {"readContractState", "contracts.readContractState"} ->
         {"contract", "method", "inputs", "outputs"}
    [] h = "getEvents" -> {"addresses", "topic", "optionalTopics"}
    [] h = "buildEventTopic" -> {"name", "arguments"}
    [] h = "getTransactionHistory" ->
         {"user", "contract", "methodId", "startBlock", "includeData"}
    [] OTHER -> {}

\* C15: every axios call, of whichever handler, goes to the one base URL
\* followed by the path of the table, with the method of the table, a body
\* for POST only, holding the keys of the table and no other, the header
\* Content-Type: application/json and the one auth header, X-BANKLESS-TOKEN,
\* whose value is the token.
C15_OneBaseOneAuthHeader ==
  task.calls > 0 =>
     LET r == task.request
         h == task.handler
     IN /\ r.url[1] = BASE_URL("getProxy")
        /\ Tail(r.url) = TablePath(h, task.hargs)
        /\ r.method = TableMethod(h)
        /\ r.hasBody <=> (r.method = "POST")
        /\ \A n \in AllFields \ TablePayload(h) : r.body[n] = VUndefined
        /\ r.headers.contentType = "application/json"
        /\ r.headers.authName = "X-BANKLESS-TOKEN"
        /\ r.headers.authValue = << task.token.s >>

\* what a tool call ends with when it runs alone: from what its caller sent,
\* the token of the environment when it started and the answer to its own
\* axios call, if one came
Alone(asked, token, answer, date) ==
  LET s == CallToolStart(IdleTask, asked.name, asked.hasArgs, asked.args,
                         token, date)
  IN IF s.pc = "awaiting" /\ answer # NoResp THEN HandlerEnd(s, answer, date)
     ELSE s

Started(j) == jobs[j].t.pc # "idle"
MissingToken(j) ==
  /\ jobs[j].t.pc = "done" /\ jobs[j].t.handler # "none"
  /\ jobs[j].t.calls = 0
  /\ jobs[j].t.thrown.cls = "BanklessAuthenticationError"
Valid(asked) ==
  /\ asked.hasArgs /\ asked.name \in SwitchCases
  /\ Parse(CaseSchema(asked.name), asked.args).ok

\* C16: a tool call that starts after another one is over is what it is
\* alone: its handler reads the token the environment holds when it starts,
\* and its outcome comes from its own request, that token and the answer to
\* its own axios call.  When the earlier call failed for the missing token
\* and the token is set by now, the later call sends its request with the
\* new token and succeeds when the answer is a 2xx response; when the
\* earlier call was the same request, the later one still makes an axios
\* call of its own and returns the data of its own answer.
C16_NothingCarriedOver ==
  \A i, j \in 1..NJobs :
    (Started(j) /\ i \in jobs[j].after) =>
       LET t == jobs[j].t
       IN /\ t = Alone(jobs[j].asked, jobs[j].env, jobs[j].answer, now)
          /\ t.handler # "none" => t.token = jobs[j].env
          /\ (Valid(jobs[j].asked) /\ ~Falsy(jobs[j].env)) =>
               /\ t.calls = 1
               /\ t.request.headers.authValue = << jobs[j].env.s >>
               /\ jobs[j].answer.kind = "ok" =>
                    /\ t.outcome.kind = "success"
                    /\ t.outcome.value = jobs[j].answer.data

C16_Witness ==
  /\ MissingToken(1) /\ 1 \in jobs[2].after
  /\ jobs[2].asked = jobs[1].asked
  /\ jobs[2].env = Str("tokB")
  /\ jobs[2].t.outcome.kind = "success"

C16_WitnessTwice ==
  /\ 1 \in jobs[2].after /\ jobs[2].asked = jobs[1].asked
  /\ jobs[1].t.calls = 1 /\ jobs[2].t.calls = 1
  /\ jobs[1].t.outcome.kind = "success" /\ jobs[2].t.outcome.kind = "success"
  /\ jobs[1].answer # jobs[2].answer

\* job i was in flight when job j started
Overlap(i, j) == i < j /\ Started(j) /\ i \notin jobs[j].after

AsAlone(j) ==
  jobs[j].t = Alone(jobs[j].asked, jobs[j].env, jobs[j].answer, now)

\* a step of one job changes the locals of that job and nothing else
OwnStep ==
  \A j \in 1..NJobs :
    jobs'[j] # jobs[j] =>
      /\ env' = env
      /\ \A i \in 1..NJobs \ {j} : jobs'[i] = jobs[i]

\* C17: tool calls that are in flight at the same time do not interfere:
\* in whichever order they start and their axios calls end, each of them is,
\* while it awaits and when it is over, what it is alone with its request,
\* the token it read and the answer to its own axios call; and a step of a
\* tool call changes its own locals only, never the environment or another
\* call.
C17_NoInterference ==
  /\ [](\A i, j \in 1..NJobs : Overlap(i, j) => (AsAlone(i) /\ AsAlone(j)))
  /\ [][OwnStep]_vars

C17_Witness ==
  /\ Overlap(1, 2)
  /\ jobs[1].asked = jobs[2].asked /\ jobs[1].env # jobs[2].env
  /\ jobs[2].t.pc = "done" /\ jobs[2].answer.kind = "ok"
  /\ jobs[1].t.pc = "awaiting" /\ jobs[1].t.calls = 1

\* the handlers whose request names a contract
ContractHandlers ==
  {"readContractState", "contracts.readContractState", "getProxy", "getAbi",
   "getSource"}

\* C18: whichever handler's axios call is answered with status 404, the
\* handler throws a BanklessResourceNotFoundError whose message holds the
\* address of the request, for the balance handlers, and the contract of
\* the request, for the handlers that look a contract up.
C18_NotFoundNamesTheResource ==
  (task.pc = "done" /\ task.response.kind = "http"
     /\ task.response.status = 404)
    =>
     /\ task.thrown.cls = "BanklessResourceNotFoundError"
     /\ task.handler \in TokenHandlers
          => Contains(task.thrown.message, task.hargs["address"].s)
     /\ task.handler \in ContractHandlers
          => Contains(task.thrown.message, task.hargs["contract"].s)

\* C19: a handler runs for a tool call, and an axios call is made, only
\* when the arguments of that request have passed the schema of the case of
\* its name; the handler is the one of that case, and what it is handed is
\* the parsed data: values that pass the schema again, with the keys the
\* schema does not know removed.
C19_HandlerGetsValidatedArguments ==
  (task.via = "call" /\ (HandlerRan \/ task.calls > 0)) =>
     /\ task.hasArgs
     /\ task.name \in SwitchCases
     /\ task.handler = CaseHandler(task.name)
     /\ LET schema == CaseSchema(task.name)
            parsed == Parse(schema, task.args)
        IN /\ parsed.ok
           /\ task.hargs = CaseArgs(task.name, parsed.data)
           /\ Parse(schema, task.hargs).ok
           /\ \A n \in AllFields \ SchemaFields(schema) :
                task.hargs[n] = VUndefined
           /\ \A n \in SchemaFields(schema) :
                task.args[n].k \in {"string", "null", "undefined"}
                  => task.hargs[n] = task.args[n]

C19_Witness ==
  /\ task.via = "call" /\ task.name = "build_event_topic"
  /\ task.pc = "awaiting" /\ task.calls = 1
  /\ task.args = With(GoodArgs("build_event_topic"), "user", VStr("0xfff"))
  /\ task.hargs # task.args

\* C20: the request getEvents sends holds optionalTopics as the empty array
\* when the argument was left out, and as the array it was given, null
\* entries included, otherwise; a get_events tool call is accepted without
\* optionalTopics and with null entries in it.  The request
\* getTransactionHistory sends holds includeData true when the argument was
\* left out and the value it was given otherwise.
C20_DefaultsInPayload ==
  /\ (task.handler = "getEvents" /\ task.calls = 1) =>
       /\ task.request.hasBody
       /\ task.request.body["optionalTopics"]
            = IF task.hargs["optionalTopics"].k = "undefined" THEN VArr(<<>>)
              ELSE task.hargs["optionalTopics"]
       /\ task.via = "call" =>
            task.request.body["optionalTopics"]
              = IF task.args["optionalTopics"].k = "undefined" THEN VArr(<<>>)
                ELSE task.args["optionalTopics"]
  /\ (task.handler = "getTransactionHistory" /\ task.calls = 1) =>
       /\ task.request.hasBody
       /\ task.request.body["includeData"]
            = IF task.hargs["includeData"].k = "undefined" THEN VBool("true")
              ELSE task.hargs["includeData"]
       /\ \A n \in {"user", "contract", "methodId", "startBlock"} :
            task.request.body[n] = task.hargs[n]

C20_Witness ==
  /\ task.via = "call" /\ task.name = "get_events" /\ task.pc = "awaiting"
  /\ task.args["optionalTopics"] = VUndefined
  /\ task.request.body["optionalTopics"] = VArr(<<>>)

C20_WitnessIncludeData ==
  /\ task.handler = "getTransactionHistory" /\ task.pc = "awaiting"
  /\ task.hargs["includeData"] = VUndefined
  /\ task.request.body["includeData"] = VBool("true")

\* the arguments that name the network, a contract or an address
Identifiers == {"network", "contract", "address"}

\* the identifiers a handler puts into the path of its endpoint
PathIdentifiers(h) ==
  CASE h \in {"getProxy", "getAbi", "getSource"} -> {"network", "contract"}
    [] h \in TokenHandlers -> {"network", "address"}
    [] OTHER -> {"network"}

\* C21: an identifier that is a string is never what a tool call is rejected
\* for, whatever the string is: no issue of the parse is about it, and the
\* parse ends the same way with any other string in its place.  When the
\* axios call is made, through the dispatcher or by a handler called as a
\* function, every identifier of the path is one part of the URL, as it was
\* given, and the contract of read_contract is in the body as it was given.
C21_IdentifiersAreOpaque ==
  /\ (task.via = "call" /\ task.hasArgs /\ task.name \in SwitchCases) =>
       \A f \in Identifiers \cap SchemaFields(CaseSchema(task.name)) :
         task.args[f].k = "string" =>
           /\ \A i \in 1..Len(task.thrown.issues) :
                task.thrown.issues[i].path[1] # f
           /\ \A s \in OddStrings \cup {"ethereum"} :
                Parse(CaseSchema(task.name), With(task.args, f, VStr(s))).ok
                  = Parse(CaseSchema(task.name), task.args).ok
           /\ HandlerRan => task.hargs[f] = task.args[f]
  /\ task.calls > 0 =>
       /\ \A f \in PathIdentifiers(task.handler) :
            Contains(task.request.url, task.hargs[f].s)
       /\ task.handler \in {"readContractState", "contracts.readContractState"}
            => task.request.body["contract"] = task.hargs["contract"]

C21_Witness ==
  /\ task.via = "call" /\ task.name = "get_proxy" /\ task.pc = "awaiting"
  /\ task.args["contract"] = VStr("0xZZ/../?x=1#y")
  /\ task.request.url
       = << "https://api.bankless.com/", "/internal/chains/", "ethereum",
            "/contract/", "0xZZ/../?x=1#y", "/find-proxy" >>

\* the first cause of failure of a tool call, in the order of the claim
FirstCause(asked, token, answer) ==
  CASE ~asked.hasArgs -> "arguments"
    [] asked.hasArgs /\ asked.name \notin SwitchCases -> "name"
    [] asked.hasArgs /\ asked.name \in SwitchCases
         /\ ~Parse(CaseSchema(asked.name), asked.args).ok -> "schema"
    [] Valid(asked) /\ Falsy(token) -> "token"
    [] Valid(asked) /\ ~Falsy(token) /\ answer.kind \in {"http", "noresponse"}
         -> "remote"
    [] OTHER -> "none"

\* C22: of the causes a tool call can fail for, the first in this order
\* decides its outcome, whatever the later ones are: absent arguments
\* ("Arguments are required"), a name without a case ("Unknown tool"),
\* arguments the schema rejects ("Invalid input", no handler run), no token
\* in the environment when the call starts (the authentication failure of
\* the handler, no axios call), and the failure of the axios call.
C22_FirstCauseDecides ==
  \A j \in 1..NJobs :
    Started(j) =>
      LET t == jobs[j].t
          cause == FirstCause(jobs[j].asked, jobs[j].env, jobs[j].answer)
      IN /\ cause = "arguments" =>
              /\ t.outcome.text = << "Arguments are required" >>
              /\ t.handler = "none" /\ t.calls = 0
         /\ cause = "name" =>
              /\ t.outcome.text = << "Unknown tool: ", jobs[j].asked.name >>
              /\ t.handler = "none" /\ t.calls = 0
         /\ cause = "schema" =>
              /\ t.thrown.cls = "ZodError"
              /\ t.outcome.text[1] = "Invalid input: "
              /\ t.handler = "none" /\ t.calls = 0
         /\ cause = "token" =>
              /\ t.thrown.cls = "BanklessAuthenticationError"
              /\ t.outcome.text
                   = << "Authentication Failed: ",
                        "BANKLESS_API_TOKEN environment variable is not set" >>
              /\ t.handler # "none" /\ t.calls = 0
         /\ cause = "remote" =>
              /\ t.calls = 1 /\ t.pc = "done"
              /\ t.outcome.kind = "failure"
              /\ t.thrown = Classify(t.handler, t.hargs, jobs[j].answer,
                                     t.outcome.at)
         /\ cause = "none" =>
              /\ t.calls = 1
              /\ t.pc = "done" => t.outcome.kind = "success"

C22_Witness ==
  /\ jobs[1].asked = Ask("no_such_tool", FALSE, NoFields)
  /\ jobs[1].env = Undefined
  /\ jobs[1].t.outcome.text = << "Arguments are required" >>
  /\ jobs[2].asked
       = Ask("get_proxy", TRUE,
             With(GoodArgs("get_proxy"), "contract", VUndefined))
  /\ jobs[2].env = Undefined
  /\ jobs[2].t.outcome.text[1] = "Invalid input: "

\* arguments that conform to an advertised schema: the required keys are
\* there, and every key of the schema that is there has the advertised type
Conforms(inputSchema, args) ==
  \A i \in 1..Len(inputSchema.properties) :
    LET p == inputSchema.properties[i]
        v == args[p.name]
    IN CASE v.k = "undefined" -> p.name \notin inputSchema.required
         [] v.k = "null" -> p.nullable
         [] OTHER ->
              /\ v.k = p.type
              /\ p.type = "array" =>
                   \A e \in 1..Len(v.e) : ElemIssues(p.items, v.e[e], <<>>) = <<>>

\* C23: the names of the catalog are the names the switch has a case for;
\* the schema advertised for a name is the rendering of the schema its case
\* parses with; every catalog returned holds exactly these names; a handler
\* runs for a tool call only under an advertised name, and, for a call with
\* arguments under an advertised name, exactly when the arguments conform
\* to the schema advertised for it, and it is the "Unknown tool" failure
\* exactly when the name is not advertised.
C23_CatalogAndSwitchAgree ==
  /\ CatalogNames(ListTools) = SwitchCases
  /\ \A name \in SwitchCases :
       Advertised(name) = zodToJsonSchema(CaseSchema(name))
  /\ \A tools \in listed : CatalogNames(tools) = SwitchCases
  /\ (task.via = "call" /\ HandlerRan) =>
       /\ task.name \in CatalogNames(ListTools)
       /\ task.handler = CaseHandler(task.name)
  /\ (task.via = "call" /\ task.hasArgs) =>
       /\ (task.name \in CatalogNames(ListTools))
            <=> (task.outcome.text # << "Unknown tool: ", task.name >>)
       /\ task.name \in CatalogNames(ListTools) =>
            /\ HandlerRan <=> Conforms(Advertised(task.name), task.args)
            /\ ~HandlerRan => task.thrown.cls = "ZodError"

C23_Witness ==
  /\ listed # {}
  /\ task.via = "call" /\ task.name = "get_events" /\ task.hasArgs
  /\ task.args["optionalTopics"] = VArr(<< ENum("7") >>)
  /\ ~Conforms(Advertised("get_events"), task.args)
  /\ task.thrown.cls = "ZodError"

(***************************************************************************)
(* C24: every invocation ends in exactly one outcome.  A finished          *)
(* invocation of a tool or of a handler carries either a success payload   *)
(* and no error, or an error and no payload, and an unfinished one carries *)
(* neither; a success payload is returned only after the one remote call   *)
(* of the invocation returned a successful response; and, in the runs in   *)
(* which a pending remote call ends with a response or a transport         *)
(* failure, every invocation that is waiting for its remote call           *)
(* eventually completes.                                                   *)
(***************************************************************************)
C24_ExactlyOneOutcome ==
  /\ [](/\ task.pc # "done" => task.outcome = NoOutcome
        /\ (task.pc = "done" /\ task.via \in {"call", "direct"}) =>
             /\ task.outcome.kind \in {"success", "failure"}
             /\ task.outcome.kind = "success" =>
                  /\ task.outcome.error = NoError
                  /\ task.thrown = NoError
                  /\ task.outcome.value # NoValue
                  /\ task.response.kind = "ok"
                  /\ task.calls = 1
             /\ task.outcome.kind = "failure" =>
                  /\ task.outcome.error # NoError
                  /\ task.thrown # NoError
                  /\ task.outcome.value = NoValue
                  /\ task.calls = 0 <=> task.response = NoResp)
  /\ (task.pc = "awaiting") ~> (task.pc = "done")

\* a tool call has failed although its remote call returned no response
C24_Witness ==
  /\ task.pc = "done"
  /\ task.via = "call"
  /\ task.calls = 1
  /\ task.response.kind = "noresponse"
  /\ task.outcome.kind = "failure"
  /\ task.outcome.value = NoValue

\* a tool call has returned a payload after a successful response
C24_WitnessSuccess ==
  /\ task.pc = "done"
  /\ task.via = "call"
  /\ task.response.kind = "ok"
  /\ task.outcome.kind = "success"
  /\ task.outcome.error = NoError
====
